---- MODULE Spec2Model ----
(***************************************************************************)
(* Model of shift/dots-wallpaper, src/main.rs: the command-line entry      *)
(* point `main` and `create_angled_strip_wallpaper`, which loads and       *)
(* resizes the input images, then composites them into angled strips.      *)
(*                                                                         *)
(* Strings are sequences of one-character strings.  An f32 is a record     *)
(* [k, m, e]: k = "fin" is the number m * 2^e with m odd (or zero) and     *)
(* below 2^24, k = "nan" is NaN, k = "inf" is the infinity of sign m.      *)
(* Every operation rounds its exact result to the nearest such number,     *)
(* ties to even, as IEEE 754 single precision does.                        *)
(* An image is a record [w, h, px], px mapping <<x, y>> to an RGB triple.  *)
(***************************************************************************)
EXTENDS Integers, Sequences, FiniteSets, TLC

\* Largest width and height of the requested resolution.
MaxDim == 3
\* Largest number of input image paths on the command line.
MaxPaths == 3

\* main.rs:129  `if args.len() < 4`
MinArgs == 4

-----------------------------------------------------------------------------
(* f32 values and the operations main.rs applies to them                   *)

Abs(i) == IF i < 0 THEN -i ELSE i
Sign(i) == IF i > 0 THEN 1 ELSE IF i < 0 THEN -1 ELSE 0
Pow2(i) == 2 ^ i

\* The bits of the significand of an f32, the hidden bit included.
SignificandBits == 24

RECURSIVE BitLen(_)
\* The number of bits of a natural number.
BitLen(i) == IF i = 0 THEN 0 ELSE 1 + BitLen(i \div 2)

RECURSIVE Canonical(_, _)
\* m * 2^e with the factors of two moved to the exponent; zero is 0 * 2^0.
Canonical(m, e) ==
  IF m = 0 THEN [k |-> "fin", m |-> 0, e |-> 0]
  ELSE IF m % 2 = 0 THEN Canonical(m \div 2, e + 1)
  ELSE [k |-> "fin", m |-> m, e |-> e]

\* The natural number m cut to 24 bits, to nearest, ties to even.
RoundedSignificand(m) ==
  LET s == BitLen(m) - SignificandBits
      q == m \div Pow2(s)
      r == m % Pow2(s)
      half == Pow2(s - 1)
  IN  IF r > half \/ (r = half /\ q % 2 = 1) THEN q + 1 ELSE q

\* The f32 nearest to m * 2^e.  (The values of this model stay far from the
\* ends of the exponent range.)
Fin(m, e) ==
  LET c == IF BitLen(Abs(m)) <= SignificandBits THEN Canonical(Abs(m), e)
           ELSE Canonical(RoundedSignificand(Abs(m)),
                          e + BitLen(Abs(m)) - SignificandBits)
  IN  [c EXCEPT !.m = Sign(m) * c.m]

NaN == [k |-> "nan", m |-> 0, e |-> 0]
Inf(s) == [k |-> "inf", m |-> s, e |-> 0]
\* A local that has not been assigned yet.
Unset == [k |-> "unset", m |-> 0, e |-> 0]

\* `u as f32` for an unsigned integer u.
AsF32(u) == Fin(u, 0)

\* a * b
FMul(a, b) ==
  IF a.k = "nan" \/ b.k = "nan" THEN NaN
  ELSE IF a.k = "inf" \/ b.k = "inf"
    THEN IF a.m = 0 \/ b.m = 0 THEN NaN ELSE Inf(Sign(a.m) * Sign(b.m))
  ELSE Fin(a.m * b.m, a.e + b.e)

\* The finite a and b as integers over the smaller of their exponents.
Aligned(a, b) ==
  LET e == IF a.e < b.e THEN a.e ELSE b.e
  IN  [a |-> a.m * Pow2(a.e - e), b |-> b.m * Pow2(b.e - e), e |-> e]

\* a - b
FSub(a, b) ==
  IF a.k = "nan" \/ b.k = "nan" THEN NaN
  ELSE IF a.k = "inf" /\ b.k = "inf"
    THEN IF a.m = b.m THEN NaN ELSE Inf(a.m)
  ELSE IF a.k = "inf" THEN Inf(a.m)
  ELSE IF b.k = "inf" THEN Inf(-b.m)
  ELSE IF b.m = 0 THEN a
  ELSE IF a.m = 0 THEN [b EXCEPT !.m = -b.m]
  ELSE LET al == Aligned(a, b) IN Fin(al.a - al.b, al.e)

RECURSIVE LongDivision(_, _, _, _)
\* Binary long division: quotient bits are added to q until it has 25 bits
\* or the remainder r is gone; t counts the bits added.
LongDivision(q, r, b, t) ==
  IF r = 0 \/ q >= Pow2(SignificandBits) THEN [q |-> q, r |-> r, t |-> t]
  ELSE IF 2 * r >= b THEN LongDivision(2 * q + 1, 2 * r - b, b, t + 1)
  ELSE LongDivision(2 * q, 2 * r, b, t + 1)

\* a / b
FDiv(a, b) ==
  IF a.k = "nan" \/ b.k = "nan" THEN NaN
  ELSE IF a.k = "inf"
    THEN IF b.k = "inf" THEN NaN
         ELSE Inf(a.m * (IF b.m < 0 THEN -1 ELSE 1))
  ELSE IF b.k = "inf" THEN Fin(0, 0)
  ELSE IF b.m = 0
    THEN IF a.m = 0 THEN NaN ELSE Inf(Sign(a.m))
  ELSE
    LET sgn == Sign(a.m) * Sign(b.m)
        d == LongDivision(Abs(a.m) \div Abs(b.m), Abs(a.m) % Abs(b.m), Abs(b.m), 0)
    IN  IF d.r = 0 THEN Fin(sgn * d.q, a.e - b.e - d.t)
        \* 25 bits and a remainder: the last bit decides, there is no tie
        ELSE Fin(sgn * ((d.q \div 2) + (d.q % 2)), a.e - b.e - d.t + 1)

\* a <= b on non-NaN values
FLe(a, b) ==
  IF a.k = "inf" THEN a.m < 0 \/ (b.k = "inf" /\ b.m > 0)
  ELSE IF b.k = "inf" THEN b.m > 0
  ELSE IF a.m = 0 THEN b.m >= 0
  ELSE IF b.m = 0 THEN a.m <= 0
  ELSE IF Sign(a.m) # Sign(b.m) THEN a.m < b.m
  ELSE LET ta == BitLen(Abs(a.m)) + a.e
           tb == BitLen(Abs(b.m)) + b.e
           al == Aligned(a, b)
       IN  IF ta = tb THEN al.a <= al.b
           ELSE IF a.m > 0 THEN ta < tb ELSE ta > tb

\* f32::min: the other operand when one is NaN
FMin(a, b) ==
  IF a.k = "nan" THEN b
  ELSE IF b.k = "nan" THEN a
  ELSE IF FLe(a, b) THEN a ELSE b

\* f32::max: the other operand when one is NaN
FMax(a, b) ==
  IF a.k = "nan" THEN b
  ELSE IF b.k = "nan" THEN a
  ELSE IF FLe(a, b) THEN b ELSE a

\* f32::floor
FFloor(a) ==
  IF a.k # "fin" \/ a.e >= 0 THEN a
  ELSE IF -a.e > SignificandBits THEN (IF a.m >= 0 THEN Fin(0, 0) ELSE Fin(-1, 0))
  ELSE Fin(a.m \div Pow2(-a.e), 0)

\* usize::MAX, only ever compared with an image count
UsizeMax == [huge |-> TRUE, v |-> 0]
Usize(v) == [huge |-> FALSE, v |-> v]

\* `f as usize`: a saturating cast, NaN gives 0.  f is integral (floored).
AsUsize(f) ==
  IF f.k = "nan" THEN Usize(0)
  ELSE IF f.k = "inf" THEN (IF f.m > 0 THEN UsizeMax ELSE Usize(0))
  ELSE IF f.m < 0 THEN Usize(0)
  ELSE IF BitLen(f.m) + f.e > 30 THEN UsizeMax
  ELSE Usize(f.m * Pow2(f.e))

\* usize::min(u, m) for a small m
UMin(u, m) == IF u.huge \/ u.v > m THEN m ELSE u.v

-----------------------------------------------------------------------------
(* Strings and the parsers main uses                                       *)

Digits == <<"0", "1", "2", "3", "4", "5", "6", "7", "8", "9">>
IsDigit(c) == \E i \in 1..10 : Digits[i] = c
DigitVal(c) == (CHOOSE i \in 1..10 : Digits[i] = c) - 1

RECURSIVE DecimalValue(_)
\* The value of a non-empty sequence of digits.
DecimalValue(s) ==
  IF Len(s) = 0 THEN 0
  ELSE 10 * DecimalValue(SubSeq(s, 1, Len(s) - 1)) + DigitVal(s[Len(s)])

AllDigits(s) == Len(s) > 0 /\ \A i \in 1..Len(s) : IsDigit(s[i])

RECURSIVE split(_, _)
\* str::split(sep).collect(): the pieces between separators, empty pieces kept.
split(s, sep) ==
  IF \A i \in 1..Len(s) : s[i] # sep THEN <<s>>
  ELSE LET i == CHOOSE j \in 1..Len(s) :
                  s[j] = sep /\ \A k \in 1..(j - 1) : s[k] # sep
       IN  <<SubSeq(s, 1, i - 1)>> \o split(SubSeq(s, i + 1, Len(s)), sep)

\* str::parse::<u32>(): an optional "+", then one or more digits.  (The
\* strings of this model are too short to overflow a u32.)
parse_u32(s) ==
  LET body == IF Len(s) > 0 /\ s[1] = "+" THEN Tail(s) ELSE s
  IN  IF AllDigits(body) THEN [ok |-> TRUE, v |-> DecimalValue(body)]
      ELSE [ok |-> FALSE, v |-> 0]

\* parse_f32 falling back to 0.0 for what is no number.
parse_f32_or_zero(s) ==
  IF s = <<"N", "a", "N">> THEN [ok |-> TRUE, v |-> NaN]
  ELSE
    LET signed == Len(s) > 0 /\ s[1] \in {"+", "-"}
        body == IF signed THEN Tail(s) ELSE s
        sgn == IF signed /\ s[1] = "-" THEN -1 ELSE 1
    IN  IF AllDigits(body) THEN [ok |-> TRUE, v |-> Fin(sgn * DecimalValue(body), 0)]
        ELSE [ok |-> TRUE, v |-> Fin(0, 0)]

\* str::parse::<f32>() on the inputs of this model: "NaN", or an optional
\* sign followed by one or more digits.
parse_f32(s) ==
  IF s = <<"N", "a", "N">> THEN [ok |-> TRUE, v |-> NaN]
  ELSE
    LET signed == Len(s) > 0 /\ s[1] \in {"+", "-"}
        body == IF signed THEN Tail(s) ELSE s
        sgn == IF signed /\ s[1] = "-" THEN -1 ELSE 1
    IN  IF AllDigits(body) THEN [ok |-> TRUE, v |-> Fin(sgn * DecimalValue(body), 0)]
        ELSE [ok |-> FALSE, v |-> NaN]

\* angle_degrees.to_radians().tan() at the angles of this model, as f32
\* arithmetic yields it: finite at 90 degrees, 1816187 * 2^-20 = 1.7320509
\* at 60.  The tangent of NaN is NaN.
Tan(angle_degrees) ==
  IF angle_degrees.k # "fin" THEN NaN
  ELSE CASE angle_degrees = Fin(0, 0) -> Fin(0, 0)
         [] angle_degrees = Fin(45, 0) -> Fin(1, 0)
         [] angle_degrees = Fin(90, 0) -> Fin(-22877332, 0)
         [] angle_degrees = Fin(-60, 0) -> Fin(-1816187, -20)

-----------------------------------------------------------------------------
(* Images and the file system                                              *)

Coords(w, h) == (0..(w - 1)) \X (0..(h - 1))

NoImage == [w |-> 0, h |-> 0, px |-> <<>>]
\* What a failed write may leave behind.
PartialFile == [w |-> -1, h |-> -1, px |-> <<>>]

\* RgbImage_new with width and height exchanged.
RgbImage_new_swapped(w, h) ==
  [w |-> h, h |-> w, px |-> [p \in Coords(h, w) |-> <<0, 0, 0>>]]

\* RgbImage::new(width, height): every pixel zero.
RgbImage_new(w, h) == [w |-> w, h |-> h, px |-> [p \in Coords(w, h) |-> <<0, 0, 0>>]]

\* The files the paths of this model name: two images, a missing file, a
\* directory (opens, cannot be read) and a file of garbage.
FileKind(path) ==
  CASE path = <<"a">> -> "image"
    [] path = <<"b">> -> "image"
    [] path = <<"m">> -> "missing"
    [] path = <<"d">> -> "unreadable"
    [] path = <<"c">> -> "corrupt"

\* The decoded picture of an image file.
Picture(path) == IF path = <<"a">> THEN 1 ELSE 2

\* resize with width and height exchanged.
resize_swapped(picture, w, h) ==
  [w |-> h, h |-> w, px |-> [p \in Coords(h, w) |-> <<picture, p[1], p[2]>>]]

\* imageops::resize(&img.to_rgb8(), width, height, Lanczos3): an image of
\* exactly width x height.  Its pixel at (x, y) is written <<picture, x, y>>,
\* so that any two pixels of any two pictures differ.
resize(picture, w, h) ==
  [w |-> w, h |-> h, px |-> [p \in Coords(w, h) |-> <<picture, p[1], p[2]>>]]

\* ImageReader::open(path) succeeds.
open_ok(path) == FileKind(path) # "missing"
\* reader.with_guessed_format() succeeds.
guess_ok(path) == FileKind(path) # "unreadable"
\* guessed_reader.decode() succeeds.
decode_ok(path) == FileKind(path) = "image"

\* load_and_resize yielding a black placeholder for a file that fails.
load_or_placeholder(path, w, h) ==
  IF FileKind(path) = "image"
  THEN [some |-> <<resize(Picture(path), w, h)>>, warning |-> ""]
  ELSE [some |-> <<RgbImage_new(w, h)>>, warning |-> "placeholder"]

\* The filter_map closure on one path: `some` is <<image>> for Some(image)
\* and <<>> for None, `warning` the warning printed ("" for none).
load_and_resize(path, w, h) ==
  IF open_ok(path)
  THEN IF guess_ok(path)
       THEN IF decode_ok(path)
            THEN [some |-> <<resize(Picture(path), w, h)>>, warning |-> ""]
            ELSE [some |-> <<>>, warning |-> "decode error"]
       ELSE [some |-> <<>>, warning |-> "format error"]
  ELSE [some |-> <<>>, warning |-> "IO error"]

\* get_pixel reading the horizontally mirrored pixel.
get_pixel_mirrored(image, x, y) == image.px[<<image.w - 1 - x, y>>]

\* image.get_pixel(x, y)
get_pixel(image, x, y) == image.px[<<x, y>>]

\* image.put_pixel(x, y, pixel)
put_pixel(image, x, y, pixel) == [image EXCEPT !.px[<<x, y>>] = pixel]

-----------------------------------------------------------------------------
(* The geometry of create_angled_strip_wallpaper, lines 94-113             *)

\* skewed_x_of with x and y exchanged.
skewed_x_transposed(x, y, tan) == FSub(AsF32(y), FMul(AsF32(x), tan))

\* x as f32 - y as f32 * tan_theta
skewed_x_of(x, y, tan) == FSub(AsF32(x), FMul(AsF32(y), tan))

\* p1..p4: the skew coordinate at the four corners
corner_skews(w, h, tan) ==
  << FSub(Fin(0, 0), FMul(Fin(0, 0), tan)),
     FSub(AsF32(w - 1), FMul(Fin(0, 0), tan)),
     FSub(Fin(0, 0), FMul(AsF32(h - 1), tan)),
     FSub(AsF32(w - 1), FMul(AsF32(h - 1), tan)) >>

\* p1.min(p2).min(p3).min(p4)
min_of(p) == FMin(FMin(FMin(p[1], p[2]), p[3]), p[4])
\* p1.max(p2).max(p3).max(p4)
max_of(p) == FMax(FMax(FMax(p[1], p[2]), p[3]), p[4])

\* (skewed_x - min_skewed_x) / skewed_range
normalized_progress_of(s, min, range) == FDiv(FSub(s, min), range)

\* image_index_of without the clamp `.min(num_users - 1)`.
image_index_unclamped(progress, n) ==
  AsUsize(FFloor(FMul(progress, AsF32(n)))).v

\* (image_index_float.floor() as usize).min(num_users - 1)
image_index_of(progress, n) ==
  UMin(AsUsize(FFloor(FMul(progress, AsF32(n)))), n - 1)

\* in_range stopping one short of the end.
in_range_short(i, n) == i < n - 1

\* `i` is still inside the range 0..n of a for loop.
in_range(i, n) == i < n

-----------------------------------------------------------------------------
(* Command lines                                                           *)

SeqsUpTo(S, n) == UNION {[1..k -> S] : k \in 0..n}

Prog == <<"w">>
Out == <<"o">>

FileNames == {<<"a">>, <<"b">>, <<"m">>, <<"c">>}

\* "<w>x<h>" for every resolution within the bound, width and height
\* positive (a Resolution is a pair of positive integers)
GoodResolutions ==
  {<<Digits[w + 1], "x", Digits[h + 1]>> : w \in 1..MaxDim, h \in 1..MaxDim}
\* not two parts around an "x"
MalformedResolutions == {<<>>, <<"2">>, <<"2", "x", "2", "x", "2">>}
\* two parts, one of them no unsigned integer
NonIntegerResolutions ==
  {<<"a", "x", "2">>, <<"x", "2">>, <<"2", "x">>, <<"2", "x", "-", "1">>}
BadWidthResolutions == {<<"a", "x", "2">>, <<"x", "2">>}

GoodAngles ==
  {<<"0">>, <<"4", "5">>, <<"9", "0">>, <<"-", "6", "0">>, <<"N", "a", "N">>}
NonNumericAngles == {<<>>, <<"a">>, <<"-">>, <<"4", "x">>}

\* Lists with the directory, which fails like the other bad files do.
DirectoryLists ==
  { << <<"d">> >>, << <<"d">>, <<"a">> >>, << <<"a">>, <<"d">> >>,
    << <<"b">>, <<"d">>, <<"a">> >>, << <<"d">>, <<"m">>, <<"c">> >> }

PathLists == SeqsUpTo(FileNames, MaxPaths) \cup DirectoryLists
FewPathLists == {<<>>, <<<<"a">>>>, <<<<"m">>, <<"a">>, <<"b">>>>}

CommandLines ==
  {<<Prog>>, <<Prog, Out>>, <<Prog, Out, <<"2", "x", "2">>>>}
  \cup {<<Prog, Out, r, a>> \o ps :
          r \in GoodResolutions, a \in GoodAngles, ps \in PathLists}
  \cup {<<Prog, Out, r, a>> \o ps :
          r \in MalformedResolutions \cup NonIntegerResolutions,
          a \in {<<"0">>, <<"a">>}, ps \in FewPathLists}
  \cup {<<Prog, Out, r, a>> \o ps :
          r \in {<<"2", "x", "2">>}, a \in NonNumericAngles, ps \in FewPathLists}

\* The decimal digits of n, as an argument is typed.
RECURSIVE Decimal(_)
Decimal(n) ==
  IF n < 10 THEN <<Digits[n + 1]>>
  ELSE Decimal(n \div 10) \o <<Digits[(n % 10) + 1]>>

\* The largest number of images on a wide command line.
MaxWideImages == 22

\* n valid images, "a" and "b" in turn.
ImageList(n) == [i \in 1..n |-> IF i % 2 = 1 THEN <<"a">> ELSE <<"b">>]

\* Command lines of up to MaxWideImages valid images on one- and two-row
\* canvases just as wide as the images are many, or one column wider, at
\* 0 and 45 degrees.
WideCommandLines ==
  UNION {
    {<<Prog, Out, Decimal(w) \o <<"x">> \o Decimal(h), a>> \o ImageList(n) :
       w \in {n, n + 1} \ {0}, h \in 1..2, a \in {<<"0">>, <<"4", "5">>}} :
    n \in 0..MaxWideImages}

-----------------------------------------------------------------------------
(* State                                                                   *)

VARIABLES
  args,             \* env::args(), args[1] the program name
  pc,               \* where the process is
  exit_code,        \* -1 while running; 0 on return from main; process::exit's
  diag,             \* the fatal diagnostic printed to stderr, "" for none
  called,           \* create_angled_strip_wallpaper has been called
  width, height,    \* resolution
  angle_degrees,
  wallpaper_paths,
  next_path,        \* the path the filter_map iterator is at (from 1)
  warnings,         \* the per-image warnings printed, in order
  resized_images,
  num_users,        \* -1 before `resized_images.len()`
  tan_theta, min_skewed_x, max_skewed_x, skewed_range,
  canvas,
  x, y,             \* the loop counters
  written,          \* for each canvas pixel, the number of put_pixel calls on it
  owner,            \* for each canvas pixel, the image_index it was read from
  out_image,        \* the image handed to save()
  writes,           \* the number of save() calls
  file,             \* the output file
  result            \* what create_angled_strip_wallpaper returned

geometry == <<tan_theta, min_skewed_x, max_skewed_x, skewed_range>>
loop == <<canvas, x, y, written, owner>>
output == <<out_image, writes, file, result>>
inputs == <<width, height, angle_degrees, wallpaper_paths>>
ingestion == <<next_path, warnings, resized_images, num_users>>

vars == <<args, pc, exit_code, diag, called, inputs, ingestion, geometry, loop, output>>

\* Before main has run: nothing parsed, loaded, computed or written.
Start ==
  /\ pc = "main"
  /\ exit_code = -1
  /\ diag = ""
  /\ called = FALSE
  /\ width = 0 /\ height = 0
  /\ angle_degrees = Unset
  /\ wallpaper_paths = <<>>
  /\ next_path = 1
  /\ warnings = <<>>
  /\ resized_images = <<>>
  /\ num_users = -1
  /\ tan_theta = Unset /\ min_skewed_x = Unset
  /\ max_skewed_x = Unset /\ skewed_range = Unset
  /\ canvas = NoImage
  /\ x = 0 /\ y = 0
  /\ written = <<>>
  /\ owner = <<>>
  /\ out_image = NoImage
  /\ writes = 0
  /\ file = NoImage
  /\ result = "none"

Init == args \in CommandLines /\ Start

InitWide == args \in WideCommandLines /\ Start

-----------------------------------------------------------------------------
(* main, lines 126-157: the arguments                                      *)

\* The outcome of the argument checks, in the order main makes them:
\* `error` is the diagnostic of the check that exits ("" when all pass).
parse_args(a) ==
  LET none == [error |-> "", width |-> 0, height |-> 0, angle |-> Unset]
  IN
  IF Len(a) < MinArgs THEN [none EXCEPT !.error = "Usage"]
  ELSE
    LET resolution_parts == split(a[3], "x") IN
    IF Len(resolution_parts) # 2
    THEN [none EXCEPT !.error = "Resolution must be in the format <width>x<height>"]
    ELSE
      LET w == parse_u32(resolution_parts[1])
          h == parse_u32(resolution_parts[2])
          ang == parse_f32(a[4])
      IN  IF ~w.ok THEN [none EXCEPT !.error = "Invalid width provided."]
          ELSE IF ~h.ok THEN [none EXCEPT !.error = "Invalid height provided."]
          ELSE IF ~ang.ok THEN [none EXCEPT !.error = "Invalid angle provided."]
          ELSE [error |-> "", width |-> w.v, height |-> h.v, angle |-> ang.v]

\* `if args.len() > 4 { &args[4..] } else { &[] }`
paths_arg_of(a) == IF Len(a) > MinArgs THEN SubSeq(a, MinArgs + 1, Len(a)) ELSE <<>>

\* main up to the call of create_angled_strip_wallpaper, or to process::exit(1).
Main ==
  /\ pc = "main"
  /\ LET p == parse_args(args) IN
     IF p.error # ""
     THEN /\ pc' = "exit"
          /\ exit_code' = 1
          /\ diag' = p.error
          /\ UNCHANGED <<called, inputs>>
     ELSE /\ pc' = "ingest"
          /\ called' = TRUE
          /\ width' = p.width
          /\ height' = p.height
          /\ angle_degrees' = p.angle
          /\ wallpaper_paths' = paths_arg_of(args)
          /\ UNCHANGED <<exit_code, diag>>
  /\ UNCHANGED <<args, ingestion, geometry, loop, output>>

-----------------------------------------------------------------------------
(* create_angled_strip_wallpaper, lines 34-75: ingestion                   *)

\* collect() putting each new image in front.
push_front(images, some) == some \o images

\* collect(): each image the closure yields goes to the end of the Vec.
push(images, some) == images \o some

\* One turn of the filter_map iterator: the closure on the next path.
Ingest ==
  /\ pc = "ingest"
  /\ next_path <= Len(wallpaper_paths)
  /\ LET r == load_and_resize(wallpaper_paths[next_path], width, height) IN
       /\ resized_images' = push(resized_images, r.some)
       /\ warnings' = IF r.warning = "" THEN warnings
                      ELSE Append(warnings, <<wallpaper_paths[next_path], r.warning>>)
  /\ next_path' = next_path + 1
  /\ UNCHANGED <<args, pc, exit_code, diag, called, inputs, num_users,
                 geometry, loop, output>>

\* The iterator is exhausted: collect() returns, num_users is the length.
Collect ==
  /\ pc = "ingest"
  /\ next_path > Len(wallpaper_paths)
  /\ num_users' = Len(resized_images)
  /\ pc' = "collected"
  /\ UNCHANGED <<args, exit_code, diag, called, inputs, next_path, warnings,
                 resized_images, geometry, loop, output>>

-----------------------------------------------------------------------------
(* image.save(output_path)                                                 *)

SaveOutcomes == {"ok", "failed", "failed midway"}

\* save() of `image` with the given outcome; the function returns (`?`
\* on an error, Ok(()) otherwise).
Save(image, outcome) ==
  /\ out_image' = image
  /\ writes' = writes + 1
  /\ file' = CASE outcome = "ok" -> image
               [] outcome = "failed" -> file
               [] outcome = "failed midway" -> PartialFile
  /\ result' = IF outcome = "ok" THEN "Ok" ELSE "Err"
  /\ pc' = "returned"

\* lines 79-83: no image survived.
SaveBlack ==
  /\ pc = "collected"
  /\ num_users = 0
  /\ \E outcome \in SaveOutcomes : Save(RgbImage_new(width, height), outcome)
  /\ UNCHANGED <<args, exit_code, diag, called, inputs, ingestion, geometry, loop>>

\* lines 85-90: one image survived.
SaveSingle ==
  /\ pc = "collected"
  /\ num_users = 1
  /\ \E outcome \in SaveOutcomes : Save(resized_images[1], outcome)
  /\ UNCHANGED <<args, exit_code, diag, called, inputs, ingestion, geometry, loop>>

-----------------------------------------------------------------------------
(* create_angled_strip_wallpaper, lines 94-124: the angled mask            *)

\* lines 94-106: two or more images survived; the skew range of the canvas
\* and a fresh black canvas.
Geometry ==
  /\ pc = "collected"
  /\ num_users >= 2
  /\ LET tan == Tan(angle_degrees)
         p == corner_skews(width, height, tan)
     IN  /\ tan_theta' = tan
         /\ min_skewed_x' = min_of(p)
         /\ max_skewed_x' = max_of(p)
         /\ skewed_range' = FSub(max_of(p), min_of(p))
  /\ canvas' = RgbImage_new(width, height)
  /\ written' = [c \in Coords(width, height) |-> 0]
  /\ owner' = [c \in Coords(width, height) |-> -1]
  /\ x' = 0 /\ y' = 0
  /\ pc' = IF in_range(0, height) /\ in_range(0, width) THEN "loop" ELSE "save"
  /\ UNCHANGED <<args, exit_code, diag, called, inputs, ingestion, output>>

\* The normalized_progress the loop body computes for the pixel (px, py).
progress_at(px, py) ==
  normalized_progress_of(skewed_x_of(px, py, tan_theta), min_skewed_x, skewed_range)

\* The image_index the loop body computes for the pixel (px, py).
index_at(px, py) ==
  image_index_of(progress_at(px, py), num_users)

\* lines 108-119: the loop body on the pixel (x, y), then the loop counters.
\* Indexing resized_images out of range panics.
Pixel ==
  /\ pc = "loop"
  /\ LET image_index == index_at(x, y) IN
     IF image_index < 0 \/ image_index >= Len(resized_images)
     THEN /\ pc' = "exit"
          /\ exit_code' = 101
          /\ diag' = "panicked: index out of bounds"
          /\ UNCHANGED loop
     ELSE /\ LET source_image == resized_images[image_index + 1]
                 pixel == get_pixel(source_image, x, y)
             IN  canvas' = put_pixel(canvas, x, y, pixel)
          /\ written' = [written EXCEPT ![<<x, y>>] = @ + 1]
          /\ owner' = [owner EXCEPT ![<<x, y>>] = image_index]
          /\ IF in_range(x + 1, width)
             THEN x' = x + 1 /\ y' = y
             ELSE x' = 0 /\ y' = y + 1
          /\ pc' = IF in_range(y', height) THEN "loop" ELSE "save"
          /\ UNCHANGED <<exit_code, diag>>
  /\ UNCHANGED <<args, called, inputs, ingestion, geometry, output>>

\* lines 121-123: the canvas is saved.
SaveCanvas ==
  /\ pc = "save"
  /\ \E outcome \in SaveOutcomes : Save(canvas, outcome)
  /\ UNCHANGED <<args, exit_code, diag, called, inputs, ingestion, geometry, loop>>

\* main, lines 159-163: the result of the call.
Return ==
  /\ pc = "returned"
  /\ pc' = "exit"
  /\ IF result = "Err"
     THEN exit_code' = 1 /\ diag' = "Application error"
     ELSE exit_code' = 0 /\ diag' = diag
  /\ UNCHANGED <<args, called, inputs, ingestion, geometry, loop, output>>

Next ==
  \/ Main
  \/ Ingest
  \/ Collect
  \/ SaveBlack
  \/ SaveSingle
  \/ Geometry
  \/ Pixel
  \/ SaveCanvas
  \/ Return

Spec == Init /\ [][Next]_vars

\* The same program on the wide command lines.
SpecWide == InitWide /\ [][Next]_vars

-----------------------------------------------------------------------------
(* What the properties below are stated with                               *)

IsImagePath(path) == FileKind(path) = "image"

\* The paths of the list that name an image, in the order of the list.
Survivors(paths) == SelectSeq(paths, IsImagePath)

\* `image` is w x h and every pixel of it is black.
IsBlack(image, w, h) ==
  /\ image.w = w /\ image.h = h
  /\ DOMAIN image.px = Coords(w, h)
  /\ \A c \in Coords(w, h) : image.px[c] = <<0, 0, 0>>

\* `image` is the file at `path` resized to w x h, pixel for pixel.
IsResized(image, path, w, h) ==
  /\ image.w = w /\ image.h = h
  /\ DOMAIN image.px = Coords(w, h)
  /\ \A c \in Coords(w, h) : image.px[c] = <<Picture(path), c[1], c[2]>>

\* No step of the geometry stage has been evaluated.
NoGeometry ==
  /\ tan_theta = Unset /\ min_skewed_x = Unset
  /\ max_skewed_x = Unset /\ skewed_range = Unset
  /\ canvas = NoImage

\* create_angled_strip_wallpaper has returned.
Returned == called /\ pc \in {"returned", "exit"} /\ result # "none"

\* The pixel loop is running or has finished.
Masking == tan_theta # Unset

Corners(w, h) == {0, w - 1} \X {0, h - 1}

IsOne(f) == f = Fin(1, 0)
IsZero(f) == f = Fin(0, 0)

\* The skew coordinate x - y * tan_theta of the pixel p in exact arithmetic,
\* in units of 1 / SkewUnit (tan_theta is m * 2^e, so the units are 2^e when
\* e is negative).
SkewUnit == IF tan_theta.e < 0 THEN Pow2(-tan_theta.e) ELSE 1
skew(p) ==
  p[1] * SkewUnit
    - p[2] * (IF tan_theta.e < 0 THEN tan_theta.m
              ELSE tan_theta.m * Pow2(tan_theta.e))

\* The least and the greatest skew coordinate of the four canvas corners.
min_skew == CHOOSE s \in {skew(c) : c \in Corners(width, height)} :
              \A c \in Corners(width, height) : s <= skew(c)
max_skew == CHOOSE s \in {skew(c) : c \in Corners(width, height)} :
              \A c \in Corners(width, height) : s >= skew(c)

\* The band [i/N, (i+1)/N) of the progress axis that the progress
\* (skew(p) - min_skew) / (max_skew - min_skew) of the pixel p lies in, with
\* progress 1 in band N-1; -1 where the progress is not defined.
band(p) ==
  IF max_skew = min_skew THEN -1
  ELSE IF skew(p) = max_skew THEN num_users - 1
  ELSE ((skew(p) - min_skew) * num_users) \div (max_skew - min_skew)

-----------------------------------------------------------------------------
(* Properties                                                              *)

\* C1: whenever the angled-partition loop runs (two or more images), the
\* source index of the pixel the loop is at, floor(progress * N) followed by
\* the clamp, is in [0, N-1] at every angle, the corner pixels included; the
\* lookup into resized_images is never out of range (no panic), and every
\* pixel already copied was read from an image in [0, N-1].
IndexBound ==
  /\ exit_code # 101
  /\ Masking =>
       /\ num_users >= 2
       /\ \A c \in Coords(width, height) : owner[c] \in -1..(num_users - 1)
  /\ pc = "loop" =>
       LET image_index == index_at(x, y) IN
       /\ image_index \in 0..(num_users - 1)
       /\ image_index + 1 \in DOMAIN resized_images

\* A corner pixel whose progress is exactly 1 has been copied from the last
\* image, and a corner whose progress is exactly 0 from the first.
IndexBoundWitness ==
  /\ pc = "save"
  /\ \E c \in Corners(width, height) :
       IsOne(progress_at(c[1], c[2])) /\ owner[c] = num_users - 1
  /\ \E c \in Corners(width, height) :
       IsZero(progress_at(c[1], c[2])) /\ owner[c] = 0

\* C2: when no image survives ingestion, at any resolution and angle, the
\* function hands save() a canvas of exactly the requested size with every
\* pixel (0,0,0), writes it once, returns Ok when the write succeeds, and no
\* step of the geometry has been evaluated.
EmptyInputBlack ==
  (Returned /\ num_users = 0) =>
     /\ IsBlack(out_image, width, height)
     /\ writes = 1
     /\ result = "Ok" <=> file = out_image
     /\ result = "Ok" => IsBlack(file, width, height)
     /\ NoGeometry

\* Every path failed, the angle is 45 degrees, the black canvas is on disk.
EmptyInputWitness ==
  /\ pc = "exit" /\ exit_code = 0
  /\ num_users = 0 /\ Len(wallpaper_paths) = 2
  /\ angle_degrees = Fin(45, 0)
  /\ width # height
  /\ IsBlack(file, width, height)

\* C3: when exactly one image survives ingestion, the image handed to save()
\* (and the file, when the write succeeds) is that image resized to the
\* requested resolution, pixel for pixel; it does not depend on the angle,
\* and no step of the geometry has been evaluated.
SingleImageDirect ==
  (Returned /\ num_users = 1) =>
     /\ Len(Survivors(wallpaper_paths)) = 1
     /\ IsResized(out_image, Survivors(wallpaper_paths)[1], width, height)
     /\ writes = 1
     /\ result = "Ok" <=> file = out_image
     /\ NoGeometry

\* One image at a non-zero angle, saved as it was resized.
SingleImageWitness ==
  /\ pc = "exit" /\ exit_code = 0
  /\ num_users = 1
  /\ wallpaper_paths = << <<"b">> >>
  /\ angle_degrees = Fin(-60, 0)
  /\ width # height
  /\ IsResized(file, <<"b">>, width, height)

\* At angle 0 the owner of a pixel is a function of its column that never
\* decreases from left to right, and every pixel shows the image that owns it.
OrderedByColumn ==
  /\ \A c \in Coords(width, height) : owner[c] = owner[<<c[1], 0>>]
  /\ \A c, e \in Coords(width, height) : c[1] <= e[1] => owner[c] <= owner[e]
  /\ \A c \in Coords(width, height) :
       canvas.px[c] = <<Picture(Survivors(wallpaper_paths)[owner[c] + 1]), c[1], c[2]>>

\* The leftmost column shows image[0] and the rightmost shows image[N-1].
EndsShown ==
  \A r \in 0..(height - 1) :
     owner[<<0, r>>] = 0 /\ owner[<<width - 1, r>>] = num_users - 1

\* The pixel loop of a run at angle 0 has finished.
ZeroAngleDone ==
  /\ Masking /\ pc \in {"save", "returned", "exit"}
  /\ angle_degrees = Fin(0, 0)

\* C4 as stated: for two or more images at angle 0, at every resolution,
\* the leftmost band shows image[0], the rightmost image[N-1], and the owner
\* of a pixel depends only on its column and never decreases with it.
OrderAtZeroAngleAnyWidth ==
  ZeroAngleDone => (OrderedByColumn /\ EndsShown)

\* C4, amended: the same at every resolution at least two pixels wide.
OrderAtZeroAngle ==
  (ZeroAngleDone /\ width >= 2) => (OrderedByColumn /\ EndsShown)

\* Three images at angle 0 on a canvas three wide: one column each, in order.
OrderAtZeroAngleWitness ==
  /\ ZeroAngleDone /\ pc = "exit"
  /\ num_users = 3 /\ width = 3 /\ height = 2
  /\ wallpaper_paths = << <<"b">>, <<"a">>, <<"b">> >>
  /\ \A c \in Coords(width, height) : owner[c] = c[1]

\* The number of the paths that fail to load.
Failures(paths) == Len(paths) - Len(Survivors(paths))

\* C5: whatever the mixture of per-path outcomes, no ingestion failure makes
\* the function return an error (only a failed write does) or stops the
\* later paths from being processed, and the branch taken depends only on
\* the number of survivors: none gives the black canvas, one gives that
\* survivor resized wherever it stood in the list, more give the mask.
CorruptFilesTolerated ==
  /\ result = "Err" => (writes = 1 /\ file # out_image)
  /\ (called /\ pc # "ingest") =>
       /\ next_path = Len(wallpaper_paths) + 1
       /\ Len(warnings) = Failures(wallpaper_paths)
       /\ num_users = Len(Survivors(wallpaper_paths))
  /\ Returned =>
       LET alive == Survivors(wallpaper_paths) IN
       /\ Len(alive) = 0 => (IsBlack(out_image, width, height) /\ NoGeometry)
       /\ Len(alive) = 1 =>
            (IsResized(out_image, alive[1], width, height) /\ NoGeometry)
       /\ Len(alive) >= 2 => (Masking /\ out_image = canvas)

\* A missing file, an image and a garbage file: the image alone is saved.
CorruptFilesWitness ==
  /\ pc = "exit" /\ exit_code = 0
  /\ wallpaper_paths = << <<"m">>, <<"a">>, <<"c">> >>
  /\ Len(warnings) = 2
  /\ IsResized(file, <<"a">>, width, height)

\* C6: at every point of ingestion the working set is the subsequence of the
\* paths processed so far that loaded, in input order: as many entries as
\* successes, no placeholder for a failure, k entries for a path given k times.
IngestionOrder ==
  called =>
    LET done == SubSeq(wallpaper_paths, 1, next_path - 1)
        alive == Survivors(done)
    IN  /\ Len(resized_images) = Len(alive)
        /\ \A i \in 1..Len(alive) :
             IsResized(resized_images[i], alive[i], width, height)
        /\ num_users \in {-1, Len(resized_images)}

\* Two different images around a directory: two entries, in input order.
IngestionOrderWitness ==
  /\ pc = "collected"
  /\ wallpaper_paths = << <<"b">>, <<"d">>, <<"a">> >>
  /\ num_users = 2
  /\ IsResized(resized_images[1], <<"b">>, width, height)
  /\ IsResized(resized_images[2], <<"a">>, width, height)

\* C7: after the pixel loop every canvas pixel (x, y) has been written
\* exactly once and is the pixel at the same (x, y) of the resized image
\* number index(x, y); the angle selects the image and nothing else.
NoWarping ==
  (Masking /\ pc \in {"save", "returned", "exit"}) =>
     /\ canvas.w = width /\ canvas.h = height
     /\ DOMAIN canvas.px = Coords(width, height)
     /\ \A c \in Coords(width, height) :
          /\ written[c] = 1
          /\ owner[c] = index_at(c[1], c[2])
          /\ owner[c] + 1 \in 1..Len(Survivors(wallpaper_paths))
          /\ canvas.px[c] =
               <<Picture(Survivors(wallpaper_paths)[owner[c] + 1]), c[1], c[2]>>

\* Two different images at 45 degrees, both visible in the finished canvas.
NoWarpingWitness ==
  /\ pc = "save"
  /\ angle_degrees = Fin(45, 0)
  /\ width = 3 /\ height = 2
  /\ wallpaper_paths = << <<"a">>, <<"b">> >>
  /\ \E c, e \in Coords(width, height) : canvas.px[c][1] = 1 /\ canvas.px[e][1] = 2

\* main has made its argument checks.
ArgsChecked == pc # "main"

\* main exited with `message` before calling create_angled_strip_wallpaper.
ExitedEarly(message) ==
  pc = "exit" /\ exit_code = 1 /\ diag = message /\ ~called

\* C8: main exits with code 1 after a diagnostic when there are too few
\* arguments, when the resolution is not <width>x<height>, when width or
\* height is no integer, when the angle is not numeric, or when
\* create_angled_strip_wallpaper returns an error from the write; on every
\* argument error the function is never called, no image is loaded and
\* nothing is written.
FatalCliErrors ==
  /\ (ArgsChecked /\ Len(args) < MinArgs) => ExitedEarly("Usage")
  /\ (ArgsChecked /\ Len(args) >= MinArgs) =>
       /\ args[3] \in MalformedResolutions =>
            ExitedEarly("Resolution must be in the format <width>x<height>")
       /\ args[3] \in BadWidthResolutions => ExitedEarly("Invalid width provided.")
       /\ args[3] \in NonIntegerResolutions \ BadWidthResolutions =>
            ExitedEarly("Invalid height provided.")
       /\ (args[3] \in GoodResolutions /\ args[4] \in NonNumericAngles) =>
            ExitedEarly("Invalid angle provided.")
       /\ (args[3] \in GoodResolutions /\ args[4] \in GoodAngles) => called
  /\ (pc = "exit" /\ result = "Err") =>
       (exit_code = 1 /\ diag = "Application error")
  /\ (pc = "exit" /\ result = "Ok") => (exit_code = 0 /\ diag = "")
  /\ ~called =>
       /\ next_path = 1 /\ resized_images = <<>> /\ warnings = <<>>
       /\ writes = 0 /\ file = NoImage /\ result = "none"

\* A non-numeric angle with image paths on the command line: exit code 1,
\* nothing loaded, nothing written.
FatalCliErrorsWitness ==
  /\ ExitedEarly("Invalid angle provided.")
  /\ Len(args) = MinArgs + 3
  /\ next_path = 1 /\ writes = 0

\* C9: on every run the write of the output file begins only after
\* ingestion has finished and the image to be saved is complete (for two or
\* more images, after every canvas pixel has been written); the file is
\* written at most once, and a failed write is returned as an error.
WriteOrdering ==
  /\ writes <= 1
  /\ writes = 1 =>
       /\ next_path = Len(wallpaper_paths) + 1
       /\ num_users = Len(resized_images)
       /\ out_image.w = width /\ out_image.h = height
       /\ DOMAIN out_image.px = Coords(width, height)
       /\ num_users >= 2 =>
            /\ out_image = canvas
            /\ \A c \in Coords(width, height) : written[c] = 1
       /\ file # out_image => result = "Err"
  /\ (called /\ pc = "exit") => writes = 1
  /\ file # NoImage => writes = 1

\* The write of a finished canvas of several images failed midway.
WriteOrderingWitness ==
  /\ pc = "returned"
  /\ num_users = 3
  /\ writes = 1 /\ file = PartialFile /\ result = "Err"
  /\ \A c \in Coords(width, height) : written[c] = 1

\* C10 as stated: for two or more images, every resolution with width >= 1
\* and height >= 1 and every angle with a finite tangent, the range is not
\* zero when the division is performed and the progress of every canvas
\* pixel is a value in [0, 1], 0 and 1 each attained at a corner.
ProgressRange ==
  (pc = "loop" /\ tan_theta.k = "fin") =>
     /\ ~IsZero(skewed_range)
     /\ \A c \in Coords(width, height) :
          LET p == progress_at(c[1], c[2]) IN
          p.k = "fin" /\ FLe(Fin(0, 0), p) /\ FLe(p, Fin(1, 0))
     /\ \E c \in Corners(width, height) : IsZero(progress_at(c[1], c[2]))
     /\ \E c \in Corners(width, height) : IsOne(progress_at(c[1], c[2]))

\* C11 as stated: for two or more images and any angle with a finite
\* tangent, ownership is monotone in the skew coordinate x - y * tan_theta
\* (skew(p) <= skew(q) implies index(p) <= index(q)), and a pixel is owned by
\* image i exactly when its progress lies in the i-th of the N equal bands
\* [i/N, (i+1)/N), progress 1 going to image N-1.
BandOrdering ==
  (pc = "save" /\ Masking /\ tan_theta.k = "fin") =>
     /\ \A p, q \in Coords(width, height) :
          skew(p) <= skew(q) => owner[p] <= owner[q]
     /\ \A p \in Coords(width, height) : owner[p] = band(p)

\* C12 as stated: for two or more surviving images, angle 0 and a canvas at
\* least as wide as the images are many, every image of the working set owns
\* at least one whole canvas column: for each i in 0..N-1 there is a column
\* cx with index(cx, cy) = i in every row cy.
StripCoverage ==
  (pc = "save" /\ Masking /\ IsZero(angle_degrees) /\ width >= num_users) =>
     \A i \in 0..(num_users - 1) :
       \E cx \in 0..(width - 1) :
         \A cy \in 0..(height - 1) : owner[<<cx, cy>>] = i

====
